---- MODULE Spec2Model ----
(***************************************************************************)
(* State-machine model of PluginPersistor                                  *)
(* (extensions/gamebryo-plugin-management/src/util/PluginPersistor.ts):    *)
(* the in-memory plugin table, the queue of write passes, the in-flight    *)
(* deserialize reads, the refresh timer, the directory watch and the two   *)
(* files loadorder.txt / plugins.txt of every game directory.              *)
(***************************************************************************)
EXTENDS Integers, Sequences, FiniteSets, TLC

VARIABLES
  mPluginPath,      \* game whose directory is synced, or Undefined
  mResetCallback,   \* TRUE when a reset callback is registered
  mWatch,           \* the referenced watch handle: its directory and whether it is open
  openWatches,      \* game -> number of open watch handles on its directory
  mRefreshTimer,    \* number of armed refresh timers
  mSerializing,     \* write-in-progress flag
  mSerializeQueue,  \* the chained write passes, oldest first
  mPlugins,         \* the in-memory table: key -> [enabled, loadOrder]
  mRetryCounter,    \* remaining read retries
  mLoaded,          \* an initial load has completed
  mFailed,          \* an error was reported and no success has followed
  reads,            \* the deserialize calls waiting for a file read
  disk,             \* game -> [lo, pl]: contents of loadorder.txt and plugins.txt
  errors,           \* number of invocations of the error sink (mOnError)
  last,             \* what the last step did (history)
  hist,             \* the current run of consecutive failed reads (history)
  seen,             \* what has happened since the first mutation (history)
  calls             \* number of host calls and environment events so far

vars == <<mPluginPath, mResetCallback, mWatch, openWatches, mRefreshTimer,
          mSerializing, mSerializeQueue, mPlugins, mRetryCounter, mLoaded,
          mFailed, reads, disk, errors, last, hist, seen, calls>>

----------------------------------------------------------------------------
(* Bounds of the model *)

MaxCalls == 4      \* calls of the host and events of the environment in one run

(* Program constants *)

retryCount == 3

Undefined == "undefined"

----------------------------------------------------------------------------
(* Games, formats and native plugins (util/gameSupport) *)

Games == {"skyrim", "fallout4"}

pluginFormat(gameMode) == IF gameMode = "fallout4" THEN "fallout4" ELSE "original"

nativePlugins(gameMode) ==
  IF gameMode = "skyrim" THEN {"skyrim.esm"}
  ELSE IF gameMode = "fallout4" THEN {"fallout4.esm"}
  ELSE {}

\* mPluginFormat and mNativePlugins are assigned together with mPluginPath
\* (loadFiles, stopSync) and never apart from it.
mPluginFormat == IF mPluginPath = Undefined THEN Undefined ELSE pluginFormat(mPluginPath)

----------------------------------------------------------------------------
(* Keys and file lines.  A key is the text of a plugin name: `stars` leading *)
(* asterisks followed by `name`.  A line of a file is a key, a comment      *)
(* (hash) or the empty line.                                                *)

Key(stars, name) == [stars |-> stars, name |-> name]

toLowerCase(name) ==
  CASE name = "Skyrim.esm" -> "skyrim.esm"
    [] name = "Fallout4.esm" -> "fallout4.esm"
    [] name = "A.esp" -> "a.esp"
    [] OTHER -> name

\* this.mNativePlugins.has(key.toLowerCase())
isNative(key, gameMode) ==
  key.stars = 0 /\ toLowerCase(key.name) \in nativePlugins(gameMode)

HeaderLine == [hash |-> TRUE, stars |-> 0, name |-> "Automatically generated by Vortex"]
EmptyLine == [hash |-> FALSE, stars |-> 0, name |-> ""]
KeyLine(key) == [hash |-> FALSE, stars |-> key.stars, name |-> key.name]
LineKey(line) == Key(line.stars, line.name)

\* iconv-lite: utf-8 represents every name; latin-1 replaces a character it
\* cannot represent by '?'
encodeUtf8(line) == line
encodeLatin1(line) ==
  IF line.name = "U+65E5.esp" THEN [line EXCEPT !.name = "?.esp"] ELSE line

MapSeq(f(_), s) == [i \in 1..Len(s) |-> f(s[i])]

\* header + '\r\n' + lines.join('\r\n'), as the lines the text splits into
fileText(keys) ==
  IF keys = <<>> THEN <<HeaderLine, EmptyLine>>
  ELSE <<HeaderLine>> \o MapSeq(KeyLine, keys)

NoFile == [exists |-> FALSE, lines |-> <<>>]
File(lines) == [exists |-> TRUE, lines |-> lines]

\* filterFileData: drop comments and empty lines
filterFileData(lines) ==
  MapSeq(LineKey, SelectSeq(lines, LAMBDA l : ~l.hash /\ ~(l.stars = 0 /\ l.name = "")))

----------------------------------------------------------------------------
(* The table *)

EmptyTable == [k \in {} |-> [enabled |-> FALSE, loadOrder |-> 0]]

Entry(enabled, loadOrder) == [enabled |-> enabled, loadOrder |-> loadOrder]

\* delete this.mPlugins[key]
deleteKey(table, key) == [k \in (DOMAIN table) \ {key} |-> table[k]]

\* keys ordered by ascending loadOrder (Array.prototype.sort on the differences)
RECURSIVE sortByLoadOrder(_, _)
sortByLoadOrder(table, keys) ==
  IF keys = {} THEN <<>>
  ELSE LET k == CHOOSE x \in keys : \A y \in keys : table[x].loadOrder <= table[y].loadOrder
       IN <<k>> \o sortByLoadOrder(table, keys \ {k})

\* doSerialize, lines 158-163: the non-native keys in load order
sortedKeys(table, gameMode) ==
  sortByLoadOrder(table, {k \in DOMAIN table : ~isNative(k, gameMode)})

\* the original projection without the enabled filter
toPluginListUnfiltered(table, input) == input

toPluginListOriginal(table, input) ==
  SelectSeq(input, LAMBDA k : table[k].enabled)

toPluginListFallout4(table, input) ==
  MapSeq(LAMBDA k : IF k \in DOMAIN table /\ table[k].enabled
                    THEN Key(k.stars + 1, k.name) ELSE k, input)

toPluginList(table, format, input) ==
  IF format = "original" THEN toPluginListOriginal(table, input)
  ELSE toPluginListFallout4(table, input)

\* toPluginListOriginal reads this.mPlugins[name].enabled: a TypeError when the
\* name is no longer a key of the table
toPluginListThrows(table, format, input) ==
  format = "original" /\ \E i \in 1..Len(input) : input[i] \notin DOMAIN table

\* initFromKeyList: one key at a time, in file order
RECURSIVE initFromKeyList(_, _, _, _, _)
initFromKeyList(plugins, keys, enabled, format, gameMode) ==
  IF keys = <<>> THEN plugins
  ELSE LET raw == Head(keys)
           keyEnabled == enabled /\ (format = "original" \/ raw.stars > 0)
           key == IF format = "fallout4" /\ raw.stars > 0
                  THEN Key(raw.stars - 1, raw.name) ELSE raw
           next == IF isNative(key, gameMode) THEN plugins
                   ELSE IF key \in DOMAIN plugins
                   THEN [plugins EXCEPT ![key].enabled = keyEnabled]
                   ELSE [k \in DOMAIN plugins \cup {key} |->
                           IF k = key THEN Entry(keyEnabled, Cardinality(DOMAIN plugins))
                           ELSE plugins[k]]
       IN initFromKeyList(next, Tail(keys), enabled, format, gameMode)

----------------------------------------------------------------------------
(* Inputs of the model *)

KeyA == Key(0, "a.esp")
KeyB == Key(0, "b.esp")
KeyNative == Key(0, "Skyrim.esm")

TableAB == (KeyA :> Entry(TRUE, 0)) @@ (KeyB :> Entry(FALSE, 1))
TableB == (KeyB :> Entry(TRUE, 0))
TableNative == (KeyNative :> Entry(TRUE, 0)) @@ (KeyA :> Entry(TRUE, 1))

\* values handed to setItem (JSON.parse(value))
InputTables == {TableAB, TableB, TableNative}

\* keys handed to removeItem
InputKeys == {KeyA, Key(0, "loadOrder")}

\* what another program (the game launcher, an editor) leaves in a file
ExternalFiles ==
  { NoFile,
    File(<<>>),
    File(<<KeyLine(KeyB), KeyLine(Key(1, "a.esp"))>>) }

FileNames == {"loadorder.txt", "plugins.txt", "other.txt"}

----------------------------------------------------------------------------
(* Initial state: the fields as the constructor leaves them, no file written *)

NoWatch == [dir |-> Undefined, open |-> FALSE]
NoStreak == [n |-> 0, errs |-> 0, failed |-> FALSE, table |-> EmptyTable,
             sup |-> FALSE, prev |-> EmptyTable]

\* the completion the last step handled: which operation, how its file
\* operation ended (out), and for a read the file, whether its data had zero
\* length and the retry flag of the call; threw: a then-handler raised a TypeError
Step(act, out, phase, empty, retry, threw) ==
  [act |-> act, out |-> out, phase |-> phase, empty |-> empty, retry |-> retry,
   threw |-> threw]
Other == Step("other", "", "", FALSE, FALSE, FALSE)
Mutation == Step("mutate", "", "", FALSE, FALSE, FALSE)

Init ==
  /\ mPluginPath = Undefined
  /\ mResetCallback = FALSE
  /\ mWatch = NoWatch
  /\ openWatches = [g \in Games |-> 0]
  /\ mRefreshTimer = 0
  /\ mSerializing = FALSE
  /\ mSerializeQueue = <<>>
  /\ mPlugins = EmptyTable
  /\ mRetryCounter = retryCount
  /\ mLoaded = FALSE
  /\ mFailed = FALSE
  /\ reads = <<>>
  /\ disk = [g \in Games |-> [lo |-> NoFile, pl |-> NoFile]]
  /\ errors = 0
  /\ last = Other
  /\ hist = NoStreak
  /\ seen = [muts |-> 0, ctxHeld |-> TRUE, quiet |-> TRUE]
  /\ calls = 0

----------------------------------------------------------------------------
(* Helpers of the handlers *)

RemoveAt(s, i) == SubSeq(s, 1, i - 1) \o SubSeq(s, i + 1, Len(s))

\* reportError that invokes the sink whatever the failed flag says
reportErrorAlways(failed, errs) == [failed |-> TRUE, errors |-> errs + 1]

\* reportError: the sink is invoked only when the failed flag is clear
reportError(failed, errs) ==
  [failed |-> TRUE, errors |-> IF failed THEN errs ELSE errs + 1]

\* scheduleRefresh that arms a timer without cancelling the armed one
scheduleRefreshNoCancel(timer) == timer + 1

\* scheduleRefresh: cancel the armed timer, arm a new one
scheduleRefresh(timer) == (IF timer > 0 THEN timer - 1 ELSE 0) + 1

\* a write pass as serialize() chains it; ahead: the passes not yet ended then
NewPass(queue) ==
  [st |-> "queued", path |-> Undefined, data |-> <<>>, res |-> "none",
   snap |-> EmptyTable,
   ahead |-> Cardinality({i \in 1..Len(queue) : queue[i].st # "done"})]

\* serialize without the loaded test
serializeUnloaded(loaded, queue) == Append(queue, NewPass(queue))

\* serialize that drops a request while an earlier pass is still waiting
serializeCoalesce(loaded, queue) ==
  IF ~loaded \/ (\E i \in 1..Len(queue) : queue[i].st = "queued") THEN queue
  ELSE Append(queue, NewPass(queue))

\* serialize: nothing is queued before the initial load
serialize(loaded, queue) ==
  IF ~loaded THEN queue ELSE Append(queue, NewPass(queue))

\* a pass that starts as soon as the pass before it has started
chainedOnStart(queue, i) == IF i = 1 THEN TRUE ELSE queue[i - 1].st # "queued"

\* a pass that starts without waiting for the passes before it
chainedEager(queue, i) == TRUE

\* this.mSerializeQueue.then(...): a pass runs when the passes chained before
\* a chain that runs the next pass only after a successful one
chainedOnSuccess(queue, i) == IF i = 1 THEN TRUE ELSE queue[i - 1].res = "ok"

\* it have ended
chained(queue, i) == IF i = 1 THEN TRUE ELSE queue[i - 1].st = "done"

\* deserialize(retry), lines 212-231: no-op without a game context, else the
\* first read is issued
deserialize(rs, retry, path) ==
  IF path = Undefined THEN rs
  ELSE Append(rs, [phase |-> IF pluginFormat(path) = "original" THEN "lo" ELSE "pl",
                   path |-> path, newPlugins |-> EmptyTable, retry |-> retry,
                   muts |-> seen.muts])

\* the empty-data test without the retry flag
emptyAnyTry(lines, retry) == lines = <<>>

\* line 234: a plugins.txt without even a header is not trusted the first time
emptyFirstTry(lines, retry) == lines = <<>> /\ ~retry

\* startWatch: close the referenced handle, then watch the plugin directory;
\* when fs.watch throws the field keeps the closed handle
startWatch(watch, open, path, watchOk) ==
  LET closed == IF watch.open THEN [open EXCEPT ![watch.dir] = @ - 1] ELSE open
  IN IF path = Undefined THEN [watch |-> [watch EXCEPT !.open = FALSE], open |-> closed]
     ELSE IF watchOk
     THEN [watch |-> [dir |-> path, open |-> TRUE],
           open |-> [closed EXCEPT ![path] = @ + 1]]
     ELSE [watch |-> [watch EXCEPT !.open = FALSE], open |-> closed]

\* the catch handler without the ENOENT branch
deserializeCatchNoEnoent(code) ==
  IF mRetryCounter > 0
  THEN [loaded |-> mLoaded, retry |-> mRetryCounter - 1,
        timer |-> scheduleRefresh(mRefreshTimer), failed |-> mFailed, errors |-> errors]
  ELSE [loaded |-> TRUE, retry |-> mRetryCounter,
        timer |-> mRefreshTimer, failed |-> reportError(mFailed, errors).failed,
        errors |-> reportError(mFailed, errors).errors]

\* the catch handler that retries without consuming the budget
deserializeCatchNoDecrement(code) ==
  IF code = "ENOENT"
  THEN [loaded |-> TRUE, retry |-> mRetryCounter,
        timer |-> mRefreshTimer, failed |-> mFailed, errors |-> errors]
  ELSE [loaded |-> mLoaded, retry |-> mRetryCounter,
        timer |-> scheduleRefresh(mRefreshTimer), failed |-> mFailed, errors |-> errors]

\* the catch handler that consumes the budget but arms no timer
deserializeCatchNoTimer(code) ==
  IF code = "ENOENT"
  THEN [loaded |-> TRUE, retry |-> mRetryCounter,
        timer |-> mRefreshTimer, failed |-> mFailed, errors |-> errors]
  ELSE IF mRetryCounter > 0
  THEN [loaded |-> mLoaded, retry |-> mRetryCounter - 1,
        timer |-> mRefreshTimer, failed |-> mFailed, errors |-> errors]
  ELSE [loaded |-> TRUE, retry |-> mRetryCounter,
        timer |-> mRefreshTimer, failed |-> reportError(mFailed, errors).failed,
        errors |-> reportError(mFailed, errors).errors]

\* the catch handler of deserialize, lines 249-264
deserializeCatch(code) ==
  IF code = "ENOENT"
  THEN [loaded |-> TRUE, retry |-> mRetryCounter,
        timer |-> mRefreshTimer, failed |-> mFailed, errors |-> errors]
  ELSE IF mRetryCounter > 0
  THEN [loaded |-> mLoaded, retry |-> mRetryCounter - 1,
        timer |-> scheduleRefresh(mRefreshTimer), failed |-> mFailed, errors |-> errors]
  ELSE [loaded |-> TRUE, retry |-> mRetryCounter,
        timer |-> mRefreshTimer, failed |-> reportError(mFailed, errors).failed,
        errors |-> reportError(mFailed, errors).errors]

----------------------------------------------------------------------------
(* History *)

\* the run of consecutive failed reads that began with a full retry budget:
\* their number, the invocations of the error sink among them, and the failed
\* flag and the table before the first of them
streakAfter(newErrors) ==
  IF hist.n > retryCount THEN NoStreak
  ELSE IF hist.n = 0
  THEN IF mRetryCounter = retryCount
       THEN [NoStreak EXCEPT !.n = 1, !.errs = newErrors - errors, !.failed = mFailed,
                             !.table = mPlugins]
       ELSE NoStreak
  ELSE [hist EXCEPT !.n = @ + 1, !.errs = @ + (newErrors - errors), !.sup = FALSE,
                    !.prev = EmptyTable]

\* a read that ends without an error leaves the supersede watch as it is
keepSup(h) == [h EXCEPT !.sup = hist.sup, !.prev = hist.prev]

\* a mutation on the loaded store: counted; ctxHeld and quiet end when it is
\* made without a game context
seenMutation ==
  IF ~mLoaded THEN seen
  ELSE [muts |-> seen.muts + 1,
        ctxHeld |-> seen.ctxHeld /\ mPluginPath # Undefined,
        quiet |-> seen.quiet /\ mPluginPath # Undefined]

\* after the first mutation: the context was cleared (ctxHeld ends), or
\* something other than a mutation or a write step touched the context, the
\* table or the files (quiet ends)
seenAfter(clearsCtx) ==
  IF seen.muts = 0 THEN seen
  ELSE [seen EXCEPT !.ctxHeld = @ /\ ~clearsCtx, !.quiet = FALSE]

----------------------------------------------------------------------------
(* The public operations *)

disable ==
  /\ mPlugins' = EmptyTable
  /\ mLoaded' = TRUE
  /\ mRetryCounter' = IF mResetCallback THEN retryCount ELSE mRetryCounter
  /\ last' = Step("disable", "", "", FALSE, FALSE, FALSE)
  /\ hist' = NoStreak
  /\ seen' = seenAfter(FALSE)
  /\ UNCHANGED <<mPluginPath, mResetCallback, mWatch, openWatches, mRefreshTimer,
                 mSerializing, mSerializeQueue, mFailed, reads, disk, errors>>

loadFiles(gameMode, watchOk) ==
  /\ mPluginPath' = gameMode
  /\ reads' = deserialize(reads, FALSE, gameMode)
  /\ LET w == startWatch(mWatch, openWatches, gameMode, watchOk)
     IN mWatch' = w.watch /\ openWatches' = w.open
  /\ last' = Other
  /\ hist' = IF mPluginPath \notin {Undefined, gameMode}
             THEN [NoStreak EXCEPT !.sup = TRUE, !.prev = mPlugins]
             ELSE NoStreak
  /\ seen' = seenAfter(FALSE)
  /\ UNCHANGED <<mResetCallback, mRefreshTimer, mSerializing, mSerializeQueue,
                 mPlugins, mRetryCounter, mLoaded, mFailed, disk, errors>>

stopSync ==
  /\ mPluginPath' = Undefined
  /\ IF mWatch.dir # Undefined
     THEN /\ openWatches' = IF mWatch.open THEN [openWatches EXCEPT ![mWatch.dir] = @ - 1]
                            ELSE openWatches
          /\ mWatch' = NoWatch
     ELSE UNCHANGED <<mWatch, openWatches>>
  /\ last' = Step("stopSync", "", "", FALSE, FALSE, FALSE)
  /\ hist' = NoStreak
  /\ seen' = seenAfter(TRUE)
  /\ UNCHANGED <<mResetCallback, mRefreshTimer, mSerializing, mSerializeQueue,
                 mPlugins, mRetryCounter, mLoaded, mFailed, reads, disk, errors>>

setResetCallback ==
  /\ mResetCallback' = TRUE
  /\ last' = Other
  /\ hist' = NoStreak
  /\ UNCHANGED <<mPluginPath, mWatch, openWatches, mRefreshTimer, mSerializing,
                 mSerializeQueue, mPlugins, mRetryCounter, mLoaded, mFailed, reads,
                 disk, errors, seen>>

setItem(value) ==
  /\ mPlugins' = value
  /\ mSerializeQueue' = serialize(mLoaded, mSerializeQueue)
  /\ last' = Mutation
  /\ hist' = NoStreak
  /\ seen' = seenMutation
  /\ UNCHANGED <<mPluginPath, mResetCallback, mWatch, openWatches, mRefreshTimer,
                 mSerializing, mRetryCounter, mLoaded, mFailed, reads, disk, errors>>

removeItem(key) ==
  /\ mPlugins' = deleteKey(mPlugins, key)
  /\ mSerializeQueue' = serialize(mLoaded, mSerializeQueue)
  /\ last' = Mutation
  /\ hist' = NoStreak
  /\ seen' = seenMutation
  /\ UNCHANGED <<mPluginPath, mResetCallback, mWatch, openWatches, mRefreshTimer,
                 mSerializing, mRetryCounter, mLoaded, mFailed, reads, disk, errors>>

----------------------------------------------------------------------------
(* The write passes *)

PassEnd(pass, res) == [pass EXCEPT !.st = "done", !.res = res]

\* doSerialize up to the first write, lines 151-166
doSerialize(i) ==
  /\ i \in 1..Len(mSerializeQueue)
  /\ mSerializeQueue[i].st = "queued"
  /\ chained(mSerializeQueue, i)
  /\ IF mPluginPath = Undefined
     THEN /\ mSerializeQueue' = [mSerializeQueue EXCEPT ![i] = PassEnd(@, "noop")]
          /\ UNCHANGED mSerializing
     ELSE /\ mSerializing' = TRUE
          /\ mSerializeQueue' =
               [mSerializeQueue EXCEPT ![i] =
                  [@ EXCEPT !.st = "lo", !.path = mPluginPath, !.snap = mPlugins,
                            !.data = sortedKeys(mPlugins, mPluginPath)]]
  /\ last' = Step("doSerialize", "", "", FALSE, FALSE, FALSE)
  /\ hist' = NoStreak
  /\ UNCHANGED <<mPluginPath, mResetCallback, mWatch, openWatches, mRefreshTimer,
                 mPlugins, mRetryCounter, mLoaded, mFailed, reads, disk, errors, seen>>

\* the write of loadorder.txt ends; on success the second then-handler builds
\* the plugin list and issues the write of plugins.txt, lines 167-171; a
\* TypeError in it (toPluginListOriginal, path.join) goes to the catch handler
writeLoadOrderDone(i, ok) ==
  /\ i \in 1..Len(mSerializeQueue)
  /\ mSerializeQueue[i].st = "lo"
  /\ LET pass == mSerializeQueue[i]
         threw == ok /\ (toPluginListThrows(mPlugins, mPluginFormat, pass.data)
                           \/ mPluginPath = Undefined)
         r == reportError(mFailed, errors)
     IN /\ disk' = IF ok THEN [disk EXCEPT ![pass.path].lo =
                                 File(MapSeq(encodeUtf8, fileText(pass.data)))]
                   ELSE disk
        /\ last' = Step("writeLoadOrder", IF ok THEN "ok" ELSE "failed", "lo",
                        FALSE, FALSE, threw)
        /\ IF ok /\ ~threw
           THEN /\ mSerializeQueue' =
                     [mSerializeQueue EXCEPT ![i] =
                        [@ EXCEPT !.st = "pl", !.path = mPluginPath,
                                  !.data = toPluginList(mPlugins, mPluginFormat, pass.data)]]
                /\ UNCHANGED <<mSerializing, mFailed, errors>>
           ELSE /\ mSerializeQueue' = [mSerializeQueue EXCEPT ![i] = PassEnd(@, "failed")]
                /\ mFailed' = r.failed
                /\ errors' = r.errors
                /\ mSerializing' = FALSE
  /\ hist' = NoStreak
  /\ UNCHANGED <<mPluginPath, mResetCallback, mWatch, openWatches, mRefreshTimer,
                 mPlugins, mRetryCounter, mLoaded, reads, seen>>

\* the write of plugins.txt ends, lines 172-178
writePluginsDone(i, ok) ==
  /\ i \in 1..Len(mSerializeQueue)
  /\ mSerializeQueue[i].st = "pl"
  /\ LET pass == mSerializeQueue[i]
         r == reportError(mFailed, errors)
     IN IF ok
        THEN /\ disk' = [disk EXCEPT ![pass.path].pl =
                           File(MapSeq(encodeLatin1, fileText(pass.data)))]
             /\ mFailed' = FALSE
             /\ mSerializeQueue' = [mSerializeQueue EXCEPT ![i] = PassEnd(@, "ok")]
             /\ UNCHANGED errors
        ELSE /\ mFailed' = r.failed
             /\ errors' = r.errors
             /\ mSerializeQueue' = [mSerializeQueue EXCEPT ![i] = PassEnd(@, "failed")]
             /\ UNCHANGED disk
  /\ last' = Step("writePlugins", IF ok THEN "ok" ELSE "failed", "pl", FALSE, FALSE, FALSE)
  /\ mSerializing' = FALSE
  /\ hist' = NoStreak
  /\ UNCHANGED <<mPluginPath, mResetCallback, mWatch, openWatches, mRefreshTimer,
                 mPlugins, mRetryCounter, mLoaded, reads, seen>>

----------------------------------------------------------------------------
(* The reads of deserialize *)

\* a file read of deserialize call i ends: with an error (readError), with
\* ENOENT when the file does not exist, or with the file's data
readDone(i, readError) ==
  /\ i \in 1..Len(reads)
  /\ LET op == reads[i]
         file == IF op.phase = "lo" THEN disk[op.path].lo ELSE disk[op.path].pl
         keys == filterFileData(file.lines)
         code == IF readError THEN "EBUSY"
                 ELSE IF ~file.exists THEN "ENOENT"
                 ELSE "data"
         rerun == code = "data" /\ op.phase = "pl" /\ emptyFirstTry(file.lines, op.retry)
         \* this.mNativePlugins.has and path.join(this.mPluginPath, ...) throw a
         \* TypeError once stopSync has cleared the fields
         threw == /\ code = "data"
                  /\ ~rerun
                  /\ mPluginPath = Undefined
                  /\ (op.phase = "lo" \/ keys # <<>>)
         c == deserializeCatch(IF threw THEN "TypeError" ELSE code)
     IN /\ last' = Step("read", code, op.phase, code = "data" /\ file.lines = <<>>,
                        op.retry, threw)
        /\ CASE rerun ->
                  /\ reads' = deserialize(RemoveAt(reads, i), TRUE, mPluginPath)
                  /\ hist' = keepSup(NoStreak)
                  /\ UNCHANGED <<mPlugins, mLoaded, mRetryCounter, mFailed, mRefreshTimer,
                                 errors, seen>>
             [] code = "data" /\ ~threw /\ op.phase = "lo" ->
                  /\ reads' = [reads EXCEPT ![i] =
                       [phase |-> "pl", path |-> mPluginPath, retry |-> op.retry,
                        muts |-> op.muts,
                        newPlugins |-> initFromKeyList(op.newPlugins, keys, FALSE,
                                                       mPluginFormat, mPluginPath)]]
                  /\ UNCHANGED <<mPlugins, mLoaded, mRetryCounter, mFailed, mRefreshTimer,
                                 errors, hist, seen>>
             [] code = "data" /\ ~threw /\ ~rerun /\ op.phase = "pl" ->
                  /\ reads' = RemoveAt(reads, i)
                  /\ mPlugins' = initFromKeyList(op.newPlugins, keys, TRUE,
                                                 mPluginFormat, mPluginPath)
                  /\ mLoaded' = TRUE
                  /\ mRetryCounter' = IF mResetCallback THEN retryCount ELSE mRetryCounter
                  /\ mFailed' = FALSE
                  /\ hist' = keepSup(NoStreak)
                  /\ seen' = seenAfter(FALSE)
                  /\ UNCHANGED <<mRefreshTimer, errors>>
             [] OTHER ->
                  /\ reads' = RemoveAt(reads, i)
                  /\ mLoaded' = c.loaded
                  /\ mRetryCounter' = c.retry
                  /\ mRefreshTimer' = c.timer
                  /\ mFailed' = c.failed
                  /\ errors' = c.errors
                  /\ hist' = IF code = "EBUSY" THEN streakAfter(c.errors)
                             ELSE IF threw THEN NoStreak ELSE keepSup(NoStreak)
                  /\ UNCHANGED <<mPlugins, seen>>
  /\ UNCHANGED <<mPluginPath, mResetCallback, mWatch, openWatches, mSerializing,
                 mSerializeQueue, disk>>

\* the refresh timer fires, lines 271-274
timerFires ==
  /\ mRefreshTimer > 0
  /\ mRefreshTimer' = mRefreshTimer - 1
  /\ reads' = deserialize(reads, FALSE, mPluginPath)
  /\ last' = Other
  /\ UNCHANGED <<mPluginPath, mResetCallback, mWatch, openWatches, mSerializing,
                 mSerializeQueue, mPlugins, mRetryCounter, mLoaded, mFailed, disk,
                 errors, hist, seen>>

\* the test of the fs.watch callback without the serializing flag
watchedAlways(serializing, fileName) == fileName \in {"loadorder.txt", "plugins.txt"}

\* lines 288-289: the event names a managed file and no write pass is in progress
watched(serializing, fileName) ==
  ~serializing /\ fileName \in {"loadorder.txt", "plugins.txt"}

\* the callback of fs.watch, lines 287-292
watchEvent(dir, fileName) ==
  /\ openWatches[dir] > 0
  /\ mRefreshTimer' = IF watched(mSerializing, fileName)
                      THEN scheduleRefresh(mRefreshTimer) ELSE mRefreshTimer
  /\ last' = Step("watch", IF mRefreshTimer > 0 THEN "pending" ELSE "idle", fileName,
                  FALSE, FALSE, FALSE)
  /\ UNCHANGED <<mPluginPath, mResetCallback, mWatch, openWatches, mSerializing,
                 mSerializeQueue, mPlugins, mRetryCounter, mLoaded, mFailed, reads,
                 disk, errors, hist, seen>>

\* another program rewrites or deletes a file of the synced directory
externalEdit(fileName, file) ==
  /\ mPluginPath # Undefined
  /\ disk' = IF fileName = "loadorder.txt" THEN [disk EXCEPT ![mPluginPath].lo = file]
             ELSE [disk EXCEPT ![mPluginPath].pl = file]
  /\ disk' # disk
  /\ last' = Other
  /\ seen' = seenAfter(FALSE)
  /\ hist' = [hist EXCEPT !.sup = FALSE, !.prev = EmptyTable]
  /\ UNCHANGED <<mPluginPath, mResetCallback, mWatch, openWatches, mRefreshTimer,
                 mSerializing, mSerializeQueue, mPlugins, mRetryCounter, mLoaded,
                 mFailed, reads, errors>>

----------------------------------------------------------------------------
(* The store and its environment *)

\* a call of the host or an event of the environment: counted, and bounded
Call(A) == calls < MaxCalls /\ A /\ calls' = calls + 1

\* a completion inside the store
Internal(A) == A /\ UNCHANGED calls

Next ==
  \/ Call(disable)
  \/ Call(\E g \in Games : loadFiles(g, TRUE))
  \/ Call(stopSync)
  \/ Call(setResetCallback)
  \/ Call(\E value \in InputTables : setItem(value))
  \/ Call(\E key \in InputKeys : removeItem(key))
  \/ Call(\E dir \in Games, fileName \in FileNames : watchEvent(dir, fileName))
  \/ Call(\E fileName \in {"loadorder.txt", "plugins.txt"}, file \in ExternalFiles :
            externalEdit(fileName, file))
  \/ Internal(\E i \in DOMAIN mSerializeQueue : doSerialize(i))
  \/ Internal(\E i \in DOMAIN mSerializeQueue, ok \in BOOLEAN : writeLoadOrderDone(i, ok))
  \/ Internal(\E i \in DOMAIN mSerializeQueue, ok \in BOOLEAN : writePluginsDone(i, ok))
  \/ Internal(\E i \in DOMAIN reads, readError \in BOOLEAN : readDone(i, readError))
  \/ Internal(timerFires)

Spec == Init /\ [][Next]_vars

\* The read side alone: loading, watching and the files another program edits
LoadNext ==
  \/ Call(disable)
  \/ Call(\E g \in Games : loadFiles(g, TRUE))
  \/ Call(stopSync)
  \/ Call(setResetCallback)
  \/ Call(\E dir \in Games, fileName \in FileNames : watchEvent(dir, fileName))
  \/ Call(\E fileName \in {"loadorder.txt", "plugins.txt"}, file \in ExternalFiles :
            externalEdit(fileName, file))
  \/ Internal(\E i \in DOMAIN reads, readError \in BOOLEAN : readDone(i, readError))
  \/ Internal(timerFires)

\* every pending file read ends and every armed timer fires
FairSpec ==
  /\ Init /\ [][LoadNext]_vars
  /\ WF_vars(Internal(\E i \in DOMAIN reads, readError \in BOOLEAN : readDone(i, readError)))
  /\ WF_vars(Internal(timerFires))

\* Tables for the round trip: one or two plugins out of four names, one of
\* them outside Latin-1, one with a leading asterisk
RoundTripKeys == {KeyA, KeyB, Key(0, "U+65E5.esp"), Key(1, "a.esp")}

RoundTripTables ==
  {(k :> Entry(e, 0)) : k \in RoundTripKeys, e \in BOOLEAN}
  \cup {(p[1] :> Entry(e1, 2)) @@ (p[2] :> Entry(e2, 5)) :
          p \in {q \in RoundTripKeys \X RoundTripKeys : q[1] # q[2]},
          e1 \in BOOLEAN, e2 \in BOOLEAN}

\* the store after loadFiles(gameMode), a first load that found no files, and
\* setItem(table): loaded, watching, one write pass queued
RoundTripInit ==
  \E gameMode \in Games, table \in RoundTripTables :
    /\ mPluginPath = gameMode
    /\ mResetCallback = FALSE
    /\ mWatch = [dir |-> gameMode, open |-> TRUE]
    /\ openWatches = [g \in Games |-> IF g = gameMode THEN 1 ELSE 0]
    /\ mRefreshTimer = 0
    /\ mSerializing = FALSE
    /\ mPlugins = table
    /\ mSerializeQueue = serialize(TRUE, <<>>)
    /\ mRetryCounter = retryCount
    /\ mLoaded = TRUE
    /\ mFailed = FALSE
    /\ reads = <<>>
    /\ disk = [g \in Games |-> [lo |-> NoFile, pl |-> NoFile]]
    /\ errors = 0
    /\ last = Mutation
    /\ hist = NoStreak
    /\ seen = [muts |-> 1, ctxHeld |-> TRUE, quiet |-> TRUE]
    /\ calls = 2

\* the write pass with both writes succeeding, then a watcher-driven reload
\* with both reads succeeding
RoundTripNext ==
  \/ Internal(\E i \in DOMAIN mSerializeQueue : doSerialize(i))
  \/ Internal(\E i \in DOMAIN mSerializeQueue : writeLoadOrderDone(i, TRUE))
  \/ Internal(\E i \in DOMAIN mSerializeQueue : writePluginsDone(i, TRUE))
  \/ Call(\E dir \in Games : watchEvent(dir, "plugins.txt"))
  \/ Internal(timerFires)
  \/ Internal(\E i \in DOMAIN reads : readDone(i, FALSE))

RoundTripSpec == RoundTripInit /\ [][RoundTripNext]_vars

----------------------------------------------------------------------------
(* Properties *)

InFlight(pass) == pass.st \in {"lo", "pl"}
Drained == \A i \in DOMAIN mSerializeQueue : mSerializeQueue[i].st = "done"

\* C1: while the store has never completed an initial load, no setItem or
\* removeItem queues a write pass: the queue is empty, no pass is in flight and
\* no file has been written by the store.
C1_NoWriteBeforeLoad ==
  ~mLoaded => /\ mSerializeQueue = <<>>
              /\ ~mSerializing
              /\ \A g \in Games : /\ disk[g].lo \in ExternalFiles \cup {NoFile}
                                  /\ disk[g].pl \in ExternalFiles \cup {NoFile}

\* a table installed by setItem on a store that has a game context and is not yet loaded
C1_Witness ==
  ~mLoaded /\ mPluginPath # Undefined /\ mPlugins = TableAB /\ last = Mutation

\* C2: at most one write pass is in flight at any time, and a pass that has
\* started its loadorder.txt write has every pass queued before it ended.
C2_OnePassInFlight ==
  /\ Cardinality({i \in DOMAIN mSerializeQueue : InFlight(mSerializeQueue[i])}) <= 1
  /\ \A i, j \in DOMAIN mSerializeQueue :
       (j < i /\ mSerializeQueue[i].st # "queued") => mSerializeQueue[j].st = "done"

\* a pass is writing its second file while two passes wait behind it
C2_Witness ==
  /\ Len(mSerializeQueue) = 3
  /\ mSerializeQueue[1].st = "pl"
  /\ mSerializeQueue[2].st = "queued"
  /\ mSerializeQueue[3].st = "queued"

\* C3: every setItem or removeItem on the loaded store queues one write pass of
\* its own, and while the game context is held no queued pass is skipped: once
\* the queue has drained, N mutations have led to N passes that ran their
\* writes (ended ok or failed), one after another.
C3_OnePassPerMutation ==
  /\ Len(mSerializeQueue) = seen.muts
  /\ seen.ctxHeld =>
       \A i \in DOMAIN mSerializeQueue :
         /\ mSerializeQueue[i].res # "noop"
         /\ mSerializeQueue[i].st = "done" => mSerializeQueue[i].res \in {"ok", "failed"}

\* three setItem calls made before the first pass ended, and three passes ended
C3_Witness ==
  /\ seen.muts = 3
  /\ seen.ctxHeld
  /\ Drained
  /\ mSerializeQueue[2].ahead = 1
  /\ mSerializeQueue[3].ahead = 2
  /\ \A i \in 1..3 : mSerializeQueue[i].res \in {"ok", "failed"}

\* loadorder.txt as a pass over this table writes it, lines 158-166
loadOrderFile(table, gameMode) ==
  File(MapSeq(encodeUtf8, fileText(sortedKeys(table, gameMode))))

\* plugins.txt as a pass over this table writes it, lines 168-170
pluginsFile(table, gameMode) ==
  File(MapSeq(encodeLatin1,
              fileText(toPluginList(table, pluginFormat(gameMode),
                                    sortedKeys(table, gameMode)))))

\* C4: last writer wins.  After mutations on the loaded store under one game
\* context, interleaved only with write steps, once the queue has drained and
\* every pass succeeded both files hold the projection of the table the last
\* mutation left.
C4_LastWriterWins ==
  (/\ seen.muts > 0
   /\ seen.quiet
   /\ Drained
   /\ \A i \in DOMAIN mSerializeQueue : mSerializeQueue[i].res = "ok")
  => /\ mPluginPath # Undefined
     /\ disk[mPluginPath].lo = loadOrderFile(mPlugins, mPluginPath)
     /\ disk[mPluginPath].pl = pluginsFile(mPlugins, mPluginPath)

\* two mutations, the second made while the first pass was in flight, both
\* passes succeeded and the table is the one the second mutation left
C4_Witness ==
  /\ seen.muts = 2
  /\ seen.quiet
  /\ Drained
  /\ \A i \in DOMAIN mSerializeQueue : mSerializeQueue[i].res = "ok"
  /\ mSerializeQueue[2].ahead = 1
  /\ mPlugins = TableB

Completion == {"doSerialize", "writeLoadOrder", "writePlugins", "read"}

\* C5: a serialize or deserialize that completes after stopSync has cleared the
\* game context completes as a no-op: the error sink is not invoked, the retry
\* budget is not consumed, no refresh is scheduled and the table is not changed.
C5_StopSyncNoOp ==
  [][(mPluginPath = Undefined /\ last'.act \in Completion)
       => /\ errors' = errors
          /\ mRetryCounter' = mRetryCounter
          /\ mRefreshTimer' = mRefreshTimer
          /\ mPlugins' = mPlugins]_vars

\* C6 as stated: 1 + retryCount consecutive failed reads that start from a full
\* retry budget invoke the error sink exactly once, leave the store loaded and
\* the table as it was before the first of them.
C6_RetryExhaustion ==
  hist.n = 1 + retryCount
    => hist.errs = 1 /\ mLoaded /\ mPlugins = hist.table

\* C6 amended: the error sink is invoked exactly once when the failed flag was
\* clear before the first attempt and not at all when it was set; the store is
\* loaded and the table is as it was before the first attempt.
C6_RetryExhaustionAmended ==
  hist.n = 1 + retryCount
    => /\ hist.errs = (IF hist.failed THEN 0 ELSE 1)
       /\ mLoaded
       /\ mPlugins = hist.table

\* four failed reads in a row on a store whose table was not empty
C6_Witness ==
  /\ hist.n = 1 + retryCount
  /\ ~hist.failed
  /\ hist.errs = 1
  /\ hist.table # EmptyTable
  /\ mRetryCounter = 0

\* C7: while the game context stays set the store eventually becomes loaded,
\* whatever the reads return and whatever the watcher delivers.
C7_EventuallyLoaded ==
  [](mPluginPath # Undefined => <>(mLoaded \/ mPluginPath = Undefined))

\* the store loaded by giving up after the retry budget was used up
C7_Witness ==
  /\ mLoaded
  /\ mPluginPath # Undefined
  /\ mRetryCounter = 0
  /\ last.act = "read" /\ last.out = "EBUSY"

\* C8: a read of deserialize that ends with ENOENT leaves the store loaded and
\* changes nothing else: not the table, the error sink, the retry budget or the
\* refresh timer.
C8_EnoentLoads ==
  [][(last'.act = "read" /\ last'.out = "ENOENT")
       => /\ mLoaded'
          /\ mPlugins' = mPlugins
          /\ errors' = errors
          /\ mFailed' = mFailed
          /\ mRetryCounter' = mRetryCounter
          /\ mRefreshTimer' = mRefreshTimer
          /\ Len(reads') = Len(reads) - 1]_vars

\* plugins.txt was missing when a store with a non-empty table read it
C8_Witness ==
  /\ last.act = "read" /\ last.out = "ENOENT" /\ last.phase = "pl"
  /\ mLoaded
  /\ mPlugins # EmptyTable
  /\ mRetryCounter = retryCount

RetryReads(rs) == Cardinality({i \in DOMAIN rs : rs[i].retry})

\* C9: with the game context set, a zero-length plugins.txt read by a first
\* attempt starts exactly one new deserialize (flagged as the retry) and leaves
\* table and loaded flag alone; read by the retry it is accepted: the table is
\* replaced by what that call collected, the store is loaded and no further
\* read or timer is started.
C9_EmptyFileOneRetry ==
  [][(last'.act = "read" /\ last'.phase = "pl" /\ last'.out = "data" /\ last'.empty)
       => /\ (~last'.retry /\ mPluginPath # Undefined)
               => /\ Len(reads') = Len(reads)
                  /\ RetryReads(reads') = RetryReads(reads) + 1
                  /\ reads'[Len(reads')].newPlugins = EmptyTable
                  /\ mPlugins' = mPlugins
                  /\ mLoaded' = mLoaded
                  /\ mRefreshTimer' = mRefreshTimer
          /\ last'.retry
               => /\ mLoaded'
                  /\ mRefreshTimer' = mRefreshTimer
                  /\ \E i \in DOMAIN reads :
                       /\ reads[i].retry /\ reads[i].phase = "pl"
                       /\ reads' = RemoveAt(reads, i)
                       /\ mPlugins' = reads[i].newPlugins]_vars

\* the retry has read a second empty plugins.txt and the table was replaced
\* by the entries of loadorder.txt
C9_Witness ==
  /\ last.act = "read" /\ last.phase = "pl" /\ last.empty /\ last.retry
  /\ mLoaded
  /\ mPlugins # EmptyTable
  /\ reads = <<>>

\* a failure that reaches reportError: a write pass that failed, or a read
\* that failed with the retry budget used up
FailureStep ==
  \/ last'.act \in {"writeLoadOrder", "writePlugins"} /\ (last'.out = "failed" \/ last'.threw)
  \/ last'.act = "read" /\ (last'.out = "EBUSY" \/ last'.threw) /\ mRetryCounter = 0

\* a full write pass or a deserialize that succeeded
SuccessStep ==
  \/ last'.act = "writePlugins" /\ last'.out = "ok"
  \/ /\ last'.act = "read" /\ last'.phase = "pl" /\ last'.out = "data" /\ ~last'.threw
     /\ ~(last'.empty /\ ~last'.retry)

\* C10: the error sink is invoked by a failure met with the failed flag clear
\* and by nothing else; a failure met with the flag set is not reported; the
\* flag is set by the report and cleared by a success only, so a success lies
\* between any two invocations.
C10_EdgeTriggered ==
  [][/\ errors' # errors => FailureStep /\ ~mFailed /\ errors' = errors + 1
     /\ FailureStep => mFailed' /\ errors' = (IF mFailed THEN errors ELSE errors + 1)
     /\ (mFailed /\ ~mFailed') => SuccessStep
     /\ SuccessStep => ~mFailed']_vars

\* a second report, after a success cleared the flag
C10_Witness == errors = 2 /\ mFailed

\* the write pass succeeded and a deserialize of the written files succeeded
RoundTripped ==
  /\ Len(mSerializeQueue) = 1
  /\ mSerializeQueue[1].res = "ok"
  /\ last.act = "read" /\ last.phase = "pl" /\ last.out = "data" /\ ~last.threw
  /\ ~(last.empty /\ ~last.retry)

\* same keys, same enabled flags, same relative load order
SameTable(t, u) ==
  /\ DOMAIN t = DOMAIN u
  /\ \A k \in DOMAIN t : t[k].enabled = u[k].enabled
  /\ \A k1, k2 \in DOMAIN t :
       (t[k1].loadOrder < t[k2].loadOrder) <=> (u[k1].loadOrder < u[k2].loadOrder)

Representable(table, format) ==
  \A k \in DOMAIN table :
    /\ (format = "fallout4" \/ table[k].enabled) => encodeLatin1(KeyLine(k)) = KeyLine(k)
    /\ format = "fallout4" => k.stars = 0

NativeLine(line, gameMode) ==
  LET key == LineKey(line)
      bare == IF pluginFormat(gameMode) = "fallout4" /\ key.stars > 0
              THEN Key(key.stars - 1, key.name) ELSE key
  IN ~line.hash /\ isNative(bare, gameMode)

NoNativeLine(file, gameMode) ==
  \A i \in 1..Len(file.lines) : ~NativeLine(file.lines[i], gameMode)

\* C12: no write of a write pass puts a native plugin of a game into the
\* loadorder.txt or plugins.txt of that game.
C12_NativeExclusion ==
  [][last'.act \in {"writeLoadOrder", "writePlugins"}
       => \A g \in Games :
            /\ disk'[g].lo # disk[g].lo => NoNativeLine(disk'[g].lo, g)
            /\ disk'[g].pl # disk[g].pl => NoNativeLine(disk'[g].pl, g)]_vars

\* the table a deserialize of this game's files installs; prev: the table that
\* stays when a file is missing
tableFromFiles(prev, gameMode) ==
  LET lo == disk[gameMode].lo
      pl == disk[gameMode].pl
      format == pluginFormat(gameMode)
      fromLo == IF format = "original"
                THEN initFromKeyList(EmptyTable, filterFileData(lo.lines), FALSE,
                                     format, gameMode)
                ELSE EmptyTable
  IN IF ~pl.exists \/ (format = "original" /\ ~lo.exists) THEN prev
     ELSE initFromKeyList(fromLo, filterFileData(pl.lines), TRUE, format, gameMode)

\* C13: after loadFiles for game B on a store synced to another game A, with
\* no stopSync in between, once every pending read has completed without an
\* error the table is the one B's files give, read in B's format with B's
\* native set.
C13_Supersedes ==
  (hist.sup /\ reads = <<>> /\ mRefreshTimer = 0)
    => mPlugins = tableFromFiles(hist.prev, mPluginPath)

ManagedFiles == {"loadorder.txt", "plugins.txt"}

\* C14: while a write pass is in flight the serializing flag is set, and a
\* watcher event delivered while the flag is set arms no timer and starts no
\* read.
C14_SelfWriteSuppressed ==
  /\ []((\E i \in DOMAIN mSerializeQueue : InFlight(mSerializeQueue[i])) => mSerializing)
  /\ [][(last'.act = "watch" /\ mSerializing)
          => mRefreshTimer' = mRefreshTimer /\ reads' = reads]_vars

\* the watcher reported loadorder.txt of the directory a pass is writing,
\* between the two writes of the pass, and no timer was armed
C14_Witness ==
  /\ last.act = "watch" /\ last.phase = "loadorder.txt"
  /\ mSerializing
  /\ mRefreshTimer = 0
  /\ \E i \in DOMAIN mSerializeQueue :
       /\ mSerializeQueue[i].st = "pl"
       /\ openWatches[mSerializeQueue[i].path] = 1

WriteFailure ==
  last'.act \in {"writeLoadOrder", "writePlugins"} /\ (last'.out = "failed" \/ last'.threw)

Ended(queue) == Cardinality({i \in DOMAIN queue : queue[i].st = "done"})

\* C15: the serializing flag is set exactly while a pass is in flight; the
\* first pass that has not started can start as soon as every pass before it
\* has ended, failed or not; a write failure ends its pass (the promise of the
\* pass settles in the catch handler), clears the flag and leaves the table
\* as the mutation made it.
C15_FailedPassDoesNotBlock ==
  /\ [](mSerializing <=> \E i \in DOMAIN mSerializeQueue : InFlight(mSerializeQueue[i]))
  /\ [](\A i \in DOMAIN mSerializeQueue :
          (/\ mSerializeQueue[i].st = "queued"
           /\ \A j \in 1..(i - 1) : mSerializeQueue[j].st = "done")
            => ENABLED doSerialize(i))
  /\ [][WriteFailure
          => /\ ~mSerializing'
             /\ mPlugins' = mPlugins
             /\ Ended(mSerializeQueue') = Ended(mSerializeQueue) + 1]_vars

\* a pass failed, the pass queued behind it ran and succeeded, and the table
\* is still the mutated one
C15_Witness ==
  /\ ~mSerializing
  /\ mPlugins = TableB
  /\ \E i, j \in DOMAIN mSerializeQueue :
       /\ i < j
       /\ mSerializeQueue[i].res = "failed"
       /\ mSerializeQueue[j].res = "ok"

\* C16: the retry counter stays within 0..retryCount, and a deserialize that
\* succeeds and a call of disable() each leave it at retryCount, with or
\* without a registered reset callback.
C16_RetryCounterReset ==
  /\ [](mRetryCounter \in 0..retryCount)
  /\ [][(SuccessStep /\ last'.act = "read") \/ last'.act = "disable"
          => mRetryCounter' = retryCount]_vars

OpenWatches == openWatches["skyrim"] + openWatches["fallout4"]

\* C17: at most one watch handle is open and at most one refresh timer is
\* armed; the handle the store refers to, when open, is the open one.
C17_OneWatchOneTimer ==
  /\ OpenWatches <= 1
  /\ mRefreshTimer \in {0, 1}
  /\ mWatch.open => openWatches[mWatch.dir] = 1

\* a watcher event for a managed file arrived while a timer was armed: still
\* one timer and one handle
C17_Witness ==
  /\ last.act = "watch" /\ last.out = "pending" /\ last.phase \in ManagedFiles
  /\ ~mSerializing
  /\ mRefreshTimer = 1
  /\ OpenWatches = 1

\* C18: when stopSync returns no watch handle is open and no refresh timer is
\* armed.
C18_TeardownReleases ==
  [][last'.act = "stopSync" => OpenWatches' = 0 /\ mRefreshTimer' = 0]_vars

\* C19: when the loadorder.txt write of a pass succeeds under the context the
\* pass started with, the pass goes on to write to plugins.txt the projection
\* of the table it took its sorted keys from, whatever the setItem or
\* removeItem that ran just before the write completed did to the table, and
\* does not fail.
C19_SameSnapshot ==
  [][\A i \in DOMAIN mSerializeQueue :
       (/\ mSerializeQueue[i].st = "lo"
        /\ mSerializeQueue[i].path = mPluginPath
        /\ last.act = "mutate"
        /\ last'.act = "writeLoadOrder" /\ last'.out = "ok")
         => /\ ~last'.threw
            /\ mSerializeQueue'[i].st = "pl"
            /\ mSerializeQueue'[i].data =
                 toPluginList(mSerializeQueue[i].snap, mPluginFormat,
                              mSerializeQueue[i].data)]_vars

\* C20: on a store that has been mutated since it was loaded, a deserialize
\* that succeeds and replaces the table is one whose reads started after the
\* last mutation.
C20_NoLostUpdate ==
  [][(SuccessStep /\ last'.act = "read" /\ seen.muts > 0)
       => \E i \in DOMAIN reads :
            /\ reads[i].phase = "pl"
            /\ reads' = RemoveAt(reads, i)
            /\ reads[i].muts = seen.muts]_vars

====
